---- MODULE Spec2Model ----
(***************************************************************************)
(* A model of img-mcp (src/unnamed/part_007, the server's index.ts):       *)
(* PathValidator, retryWithBackoff, and the ImgMcp tool handlers with the  *)
(* metadata and configuration files they read and write.                   *)
(*                                                                         *)
(* Strings that the code inspects (paths, messages) are sequences of       *)
(* atoms.  The atoms "/" and "." are those characters; every other atom    *)
(* stands for a non-empty run of characters holding neither "/" nor ".",   *)
(* and concatenating sequences is concatenating the strings.  POSIX path   *)
(* rules are modelled (path.sep = "/").                                    *)
(***************************************************************************)
EXTENDS Integers, Sequences, FiniteSets, TLC

VARIABLES
    pvEnv,      \* PathValidator run: [cwd, home] of the process
    pvInput,    \* PathValidator run: the filePath argument
    pvResult,   \* PathValidator run: Null before the call, else its outcome
    rtArgs,     \* retryWithBackoff run: [outs, maxRetries, initialDelay]
    rtRun,      \* retryWithBackoff run: Null before the call, else what it did
    \* --- the ImgMcp process ---
    pc,             \* "new": constructed, run() not yet called; "running"
    config,         \* this.config: Null or [geminiApiKey, outputDirectory]
    genAI,          \* this.genAI: Null or the client with its apiKey
    configSource,   \* this.configSource
    lastImagePath,  \* this.lastImagePath (NoPath: null)
    imageMetadata,  \* this.imageMetadata: the Map's values in insertion order
    pathValidator,  \* this.pathValidator: Null or [allowedDirectories]
    \* --- its environment ---
    envKey,         \* process.env.GEMINI_API_KEY (None: unset)
    configFile,     \* .img-mcp-config.json: Null (absent) or the object in it
    metaFiles,      \* .metadata.json of each images directory: Null or the array in it
    files,          \* the paths of the image files on disk
    clock,          \* the millisecond the clock last showed
    \* --- what the last step showed ---
    reply,          \* the answer to the tool call handled by the last step
    errorLog,       \* the messages the last step logged with warn() and error()
    \* --- bookkeeping of the model ---
    created,        \* how many image files this run has written
    persisted,      \* per images directory: the index as of the last written .metadata.json
    \* --- the tool calls that wait at an await ---
    tasks           \* the calls in flight and those that returned, in the order they began

pvVars == <<pvEnv, pvInput, pvResult>>
rtVars == <<rtArgs, rtRun>>
procVars == <<pc, config, genAI, configSource, lastImagePath, imageMetadata, pathValidator>>
diskVars == <<envKey, configFile, metaFiles, files, clock>>
obsVars == <<reply, errorLog, created, persisted>>
mainVars == <<procVars, diskVars, obsVars>>
vars == <<pvVars, rtVars, mainVars, tasks>>

\* null or undefined, for a string-valued, a path-valued and an object-valued place
None == "none"
NoPath == <<>>
Null == [null |-> TRUE]

(***************************************************************************)
(* Strings                                                                 *)
(***************************************************************************)
SEP == "/"
DOT == "."
DotDot == <<DOT, DOT>>

\* String.prototype.includes
Includes(s, sub) ==
    \E i \in 0..(Len(s) - Len(sub)) : SubSeq(s, i + 1, i + Len(sub)) = sub

\* String.prototype.startsWith
StartsWith(s, pre) ==
    Len(pre) <= Len(s) /\ SubSeq(s, 1, Len(pre)) = pre

\* Array.prototype.join
RECURSIVE Join(_, _)
Join(parts, sep) ==
    IF Len(parts) = 0 THEN <<>>
    ELSE IF Len(parts) = 1 THEN parts[1]
    ELSE parts[1] \o sep \o Join(Tail(parts), sep)

(***************************************************************************)
(* Node's path module (POSIX), as called by the server                     *)
(***************************************************************************)
\* The segments of a string between separators (empty segments included).
RECURSIVE SplitFrom(_, _, _, _)
SplitFrom(p, i, done, cur) ==
    IF i > Len(p) THEN Append(done, cur)
    ELSE IF p[i] = SEP THEN SplitFrom(p, i + 1, Append(done, cur), <<>>)
    ELSE SplitFrom(p, i + 1, done, Append(cur, p[i]))
Split(p) == SplitFrom(p, 1, <<>>, <<>>)

\* normalizeString with allowAboveRoot = false: "" and "." are skipped and
\* ".." removes the segment before it, if there is one.
RECURSIVE NormalizeFrom(_, _, _)
NormalizeFrom(segs, i, kept) ==
    IF i > Len(segs) THEN kept
    ELSE IF segs[i] = <<>> \/ segs[i] = <<DOT>> THEN NormalizeFrom(segs, i + 1, kept)
    ELSE IF segs[i] = DotDot
         THEN NormalizeFrom(segs, i + 1,
                  IF Len(kept) = 0 THEN kept ELSE SubSeq(kept, 1, Len(kept) - 1))
    ELSE NormalizeFrom(segs, i + 1, Append(kept, segs[i]))
NormalizeSegs(segs) == NormalizeFrom(segs, 1, <<>>)

IsAbsolute(p) == Len(p) > 0 /\ p[1] = SEP

\* The segments of path.resolve(p) in a process whose working directory is cwd.
ResolveSegs(cwd, p) ==
    IF IsAbsolute(p) THEN NormalizeSegs(Split(p))
    ELSE NormalizeSegs(Split(cwd \o <<SEP>> \o p))

\* path.resolve(p): always absolute, no trailing separator except for the root.
Resolve(cwd, p) == <<SEP>> \o Join(ResolveSegs(cwd, p), <<SEP>>)

\* path.join(a, b) for an absolute a
PathJoin(a, b) == <<SEP>> \o Join(NormalizeSegs(Split(a \o <<SEP>> \o b)), <<SEP>>)

\* path.extname(p): from the last "." of the last segment, "" when there is
\* none or when the segment only starts with it.
ExtName(p) ==
    LET segs == Split(p)
        base == segs[Len(segs)]
        dots == {i \in 1..Len(base) : base[i] = DOT}
        Max(S) == CHOOSE x \in S : \A y \in S : y <= x
    IN  IF dots = {} \/ Max(dots) = 1 THEN <<>>
        ELSE SubSeq(base, Max(dots), Len(base))

(***************************************************************************)
(* PathValidator                                                           *)
(***************************************************************************)
GeneratedImgs == "generated_imgs"
ImgMcpImages == "img-mcp-images"

\* ImgMcp.getImagesDirectory on a POSIX platform
getImagesDirectory(outputDirectory, cwd, home) ==
    IF outputDirectory # NoPath THEN outputDirectory
    ELSE IF \E d \in {"usr", "opt", "var"} : StartsWith(cwd, <<SEP, d, SEP>>)
         THEN PathJoin(home, <<ImgMcpImages>>)
         ELSE PathJoin(cwd, <<GeneratedImgs>>)

\* PathValidator.constructor: the allowedDirectories array
AllowedDirectories(imagesDirectory, cwd, home) == <<imagesDirectory, cwd, home>>

InvalidParams == "InvalidParams"
InvalidRequest == "InvalidRequest"
InternalError == "InternalError"

McpError(code, message) == [ok |-> FALSE, code |-> code, message |-> message]

\* The template literals of the two McpErrors
TraversalMessage(filePath) ==
    <<"Path contains directory traversal: ">> \o filePath
        \o <<DOT, " Paths must be within allowed directories", DOT>>
NotAllowedMessage(filePath, allowedDirectories) ==
    <<"Path not allowed: ">> \o filePath \o <<DOT, " Must be within: ">>
        \o Join(allowedDirectories, <<", ">>)

\* The some() callback: the path is the directory or starts with it and a separator.
IsAllowed(allowedDirectories, cwd, resolvedPath) ==
    \E i \in 1..Len(allowedDirectories) :
        LET resolvedAllowed == Resolve(cwd, allowedDirectories[i])
        IN  \/ StartsWith(resolvedPath, resolvedAllowed \o <<SEP>>)
            \/ resolvedPath = resolvedAllowed

\* The traversal test of validateAndSanitize, made on the resolved path
HasTraversal(filePath, resolvedPath) == Includes(resolvedPath, DotDot)

\* PathValidator.validateAndSanitize
validateAndSanitize(allowedDirectories, cwd, filePath) ==
    LET resolvedPath == Resolve(cwd, filePath)
    IN  IF HasTraversal(filePath, resolvedPath)
        THEN McpError(InvalidParams, TraversalMessage(filePath))
        ELSE IF ~IsAllowed(allowedDirectories, cwd, resolvedPath)
        THEN McpError(InvalidParams, NotAllowedMessage(filePath, allowedDirectories))
        ELSE [ok |-> TRUE, path |-> resolvedPath]

\* PathValidator.isImageFile (toLowerCase folds the upper-case atoms)
ToLower(a) == IF a = "PNG" THEN "png" ELSE IF a = "JPG" THEN "jpg" ELSE a
isImageFile(filePath) ==
    LET ext == ExtName(filePath)
    IN  Len(ext) = 2 /\ ToLower(ext[2]) \in {"png", "jpg", "jpeg", "webp"}

(***************************************************************************)
(* retryWithBackoff                                                        *)
(*                                                                         *)
(* The operation fn is given by the outcomes of its successive calls:      *)
(* outs[k] is what the k-th call returns or throws.  An outcome is         *)
(* [ok |-> TRUE, ...] for a returned value and, for a thrown error,        *)
(* [ok |-> FALSE, mcp |-> is it a McpError, code |-> ..., message |-> ...].*)
(***************************************************************************)
RECURSIVE Pow2(_)
Pow2(n) == IF n <= 0 THEN 1 ELSE 2 * Pow2(n - 1)

\* (variant: only InvalidParams is rethrown at once)
IsNonRetryable_ParamsOnly(error) ==
    error.mcp /\ error.code = InvalidParams

\* The errors rethrown at once: McpError with code InvalidParams or InvalidRequest
IsNonRetryable(error) ==
    error.mcp /\ error.code \in {InvalidParams, InvalidRequest}

\* (variant: the wait grows linearly)
RetryDelay_Linear(initialDelay, attempt) == initialDelay * (attempt + 1)

\* The wait after failed attempt number attempt (counted from 0)
RetryDelay(initialDelay, attempt) == initialDelay * Pow2(attempt)

\* Is another attempt made after a retryable failure of attempt number attempt?
HasNextAttempt(attempt, maxRetries) == attempt < maxRetries

UnknownError == [ok |-> FALSE, mcp |-> FALSE, code |-> None, message |-> <<"Unknown error">>]

\* The loop from attempt number attempt on; acc is what happened so far:
\* calls made, waits made, messages of the warnings logged, lastError.
RECURSIVE RetryLoop(_, _, _, _, _)
RetryLoop(outs, maxRetries, initialDelay, attempt, acc) ==
    IF attempt > maxRetries
    THEN [calls |-> acc.calls, delays |-> acc.delays, warned |-> acc.warned,
          result |-> IF acc.lastError = Null THEN UnknownError ELSE acc.lastError]
    ELSE LET out == outs[attempt + 1]
             calls == acc.calls + 1
         IN  IF out.ok
             THEN [calls |-> calls, delays |-> acc.delays, warned |-> acc.warned,
                   result |-> out]
             ELSE IF IsNonRetryable(out)
             THEN [calls |-> calls, delays |-> acc.delays, warned |-> acc.warned,
                   result |-> out]
             ELSE IF HasNextAttempt(attempt, maxRetries)
             THEN RetryLoop(outs, maxRetries, initialDelay, attempt + 1,
                      [calls |-> calls,
                       delays |-> Append(acc.delays, RetryDelay(initialDelay, attempt)),
                       warned |-> Append(acc.warned, out.message),
                       lastError |-> out])
             ELSE RetryLoop(outs, maxRetries, initialDelay, attempt + 1,
                      [calls |-> calls, delays |-> acc.delays, warned |-> acc.warned,
                       lastError |-> out])

retryWithBackoff(outs, maxRetries, initialDelay) ==
    RetryLoop(outs, maxRetries, initialDelay, 0,
              [calls |-> 0, delays |-> <<>>, warned |-> <<>>, lastError |-> Null])

DefaultMaxRetries == 3
DefaultInitialDelay == 1000

(***************************************************************************)
(* ImgMcp: data                                                            *)
(***************************************************************************)
\* An undefined property value, and a defined one
Undefined == [def |-> FALSE]
Some(x) == [def |-> TRUE, v |-> x]
\* obj.f, which is undefined when the object has no property f
Field(obj, f) == IF f \in DOMAIN obj THEN obj[f] ELSE Undefined

MetadataFields ==
    {"id", "filePath", "uri", "prompt", "type", "timestamp", "model", "format",
     "size", "referenceImages", "parentImageId"}

\* The properties that may be undefined (declared with "?" in ImageMetadata)
OptionalFields == {"referenceImages", "parentImageId"}

\* JSON.stringify of one object: properties whose value is undefined are left out
Stringify(obj) ==
    [f \in {g \in DOMAIN obj : ~(g \in OptionalFields /\ obj[g] = Undefined)} |-> obj[f]]
\* JSON.stringify(metadataArray) followed, at the reader, by JSON.parse
StringifyArray(arr) == [i \in 1..Len(arr) |-> Stringify(arr[i])]

\* Map.prototype.get / has / set / delete on the insertion-ordered values
MapHas(m, id) == \E i \in 1..Len(m) : m[i].id = id
MapGet(m, id) == m[CHOOSE i \in 1..Len(m) : m[i].id = id]
\* (variant: the entry is not stored)
MapSet_Dropped(m, meta) == m
MapSet(m, meta) ==
    IF MapHas(m, meta.id)
    THEN [i \in 1..Len(m) |-> IF m[i].id = meta.id THEN meta ELSE m[i]]
    ELSE Append(m, meta)
\* (variant: the entry stays)
MapDelete_KeepsEntry(m, id) == m
MapDelete(m, id) == SelectSeq(m, LAMBDA x : x.id # id)
MapIds(m) == {m[i].id : i \in 1..Len(m)}

\* (variant: no record is found)
FindByPath_NoMatch(m, p) == Undefined

\* Array.prototype.find(m => m.filePath === p) over the Map's values
FindByPath(m, p) ==
    IF \E i \in 1..Len(m) : m[i].filePath = p
    THEN Some(m[CHOOSE i \in 1..Len(m) :
                    m[i].filePath = p /\ \A j \in 1..(i - 1) : m[j].filePath # p])
    ELSE Undefined

\* The process's working and home directories
Cwd == <<SEP, "w">>
HomeDir == <<SEP, "h">>

ImagesDirOf(cfg) ==
    getImagesDirectory(IF cfg = Null THEN NoPath ELSE cfg.outputDirectory, Cwd, HomeDir)
MetaDirs == {ImagesDirOf(Null)}

NewPathValidator(cfg) ==
    [allowedDirectories |-> AllowedDirectories(ImagesDirOf(cfg), Cwd, HomeDir)]

\* ConfigSchema.parse: Null when it throws (geminiApiKey must be a non-empty string)
ParseConfig(obj) ==
    IF obj.geminiApiKey = "" THEN Null
    ELSE [geminiApiKey |-> obj.geminiApiKey, outputDirectory |-> obj.outputDirectory]

\* Model names: the family prefix and the rest; NoModel: the argument is absent
DefaultModel == <<"gemini-", "2.5-flash-image-preview">>
ImagenModel == <<"imagen-", "4.0-fast-generate-001">>
NoModel == <<>>
DefaultFormat == "png"
MaxPromptLength == 4000
MaxReferenceImages == 5

isImagenModel(model) == StartsWith(model, <<"imagen-">>)
ensureConfigured == config # Null /\ genAI # Null

\* A thrown Error that is no McpError
PlainError(message) == [ok |-> FALSE, mcp |-> FALSE, code |-> None, message |-> message]
\* A thrown McpError
Mcp(code, message) == [ok |-> FALSE, mcp |-> TRUE, code |-> code, message |-> message]

Redacted == "[REDACTED]"

\* (variant: the key is redacted whatever its source)
ConfigToSave_AlwaysRedacted(cfg, source) ==
    [geminiApiKey |-> Redacted, outputDirectory |-> cfg.outputDirectory]

\* saveConfig: the object written to .img-mcp-config.json
ConfigToSave(cfg, source) ==
    IF source = "environment"
    THEN [geminiApiKey |-> Redacted, outputDirectory |-> cfg.outputDirectory]
    ELSE cfg

\* (variant: every record of the file is admitted)
LoadMetadata_NoAccessCheck(content, onDisk) == content

\* loadMetadata into the empty Map: the records of the file whose filePath can
\* be accessed, in the file's order (a later record with the same id replaces).
RECURSIVE LoadInto(_, _, _)
LoadInto(m, content, onDisk) ==
    IF Len(content) = 0 THEN m
    ELSE LoadInto(IF Head(content).filePath \in onDisk THEN MapSet(m, Head(content)) ELSE m,
                  Tail(content), onDisk)
LoadMetadata(content, onDisk) == LoadInto(<<>>, content, onDisk)

\* The CallToolRequest handler around a tool: a McpError is logged and rethrown,
\* any other error is logged and wrapped in an InternalError McpError.
Dispatch(result) ==
    IF result.ok \/ result.mcp THEN result
    ELSE [result EXCEPT !.mcp = TRUE, !.code = InternalError,
                        !.message = <<"Tool execution failed: ">> \o result.message]
DispatchLog(result) ==
    IF result.ok THEN {} ELSE {result.message}

NoReply == [op |-> "none"]

\* File permissions: who may read or write.  fs.writeFile called without a
\* mode creates the file with mode 0o666 less the bits of the process's umask
\* (the usual 0o022).
WriteFileMode == {"owner-read", "owner-write", "group-read", "group-write",
                  "other-read", "other-write"}
Umask == {"group-write", "other-write"}
OwnerOnly == {"owner-read", "owner-write"}

\* A file that does not exist, and one written by fs.writeFile(path, content)
NoFile == [exists |-> FALSE]
File(content) == [exists |-> TRUE, content |-> content, mode |-> WriteFileMode \ Umask]

(***************************************************************************)
(* ImgMcp: the upstream service                                            *)
(***************************************************************************)
Bytes == "bytes"
PayloadSize(data) == 1

\* What generateContent can return: candidates[0].content.parts
TextPart == [text |-> "a description"]
ImagePart == [inlineData |-> [data |-> Bytes, mimeType |-> "image/png"]]
ContentResponses ==
    { [ok |-> TRUE, parts |-> <<TextPart>>],
      [ok |-> TRUE, parts |-> <<TextPart, ImagePart>>] }
\* What generateImages can return: generatedImages, each with its image
ImagesResponses ==
    { [ok |-> TRUE, generatedImages |-> <<[image |-> [imageBytes |-> Bytes]]>>] }

\* What an upstream call can throw; the service may quote the key it was given.
TransientErrors == { PlainError(<<"429 Too Many Requests">>) }
TerminalErrors(key) == { PlainError(<<"API key not valid: ", key>>) }
UpstreamErrors(key) == TransientErrors \cup TerminalErrors(key)

\* The outcomes of the successive upstream calls of one request: nFail failed
\* calls, the first with first and the others with later, then final.
UpstreamOuts(nFail, first, later, final) ==
    [k \in 1..(DefaultMaxRetries + 1) |->
        IF k > nFail THEN final ELSE IF k = 1 THEN first ELSE later]

\* generateImage's reading of the two response shapes: the image data or undefined
ImageDataOfImages(response) ==
    IF /\ Len(response.generatedImages) > 0
       /\ "image" \in DOMAIN response.generatedImages[1]
       /\ "imageBytes" \in DOMAIN response.generatedImages[1].image
    THEN IF "imageBytes" \in DOMAIN response.generatedImages[1]
         THEN Some(response.generatedImages[1].imageBytes)
         ELSE Undefined
    ELSE Undefined
\* (variant: every response is read as holding image data)
ImageDataOfContent_AlwaysData(response) == Some(Bytes)
ImageDataOfContent(response) ==
    LET withData == {i \in 1..Len(response.parts) : "inlineData" \in DOMAIN response.parts[i]}
    IN  IF withData = {} THEN Undefined
        ELSE Some(response.parts[CHOOSE i \in withData : \A j \in withData : j <= i].inlineData.data)

\* Does the response carry image data
HasPayload(response) ==
    IF "parts" \in DOMAIN response
    THEN \E i \in 1..Len(response.parts) : "inlineData" \in DOMAIN response.parts[i]
    ELSE IF "generatedImages" \in DOMAIN response
    THEN \E i \in 1..Len(response.generatedImages) :
             /\ "image" \in DOMAIN response.generatedImages[i]
             /\ "imageBytes" \in DOMAIN response.generatedImages[i].image
    ELSE FALSE

(***************************************************************************)
(* ImgMcp: the process and its tools                                       *)
(***************************************************************************)
Keys == {"K1", "K2"}
Prompts == {"", "   ", "red circle", "a prompt of 4001 characters"}
PromptLength(prompt) ==
    IF prompt = "" THEN 0
    ELSE IF prompt = "   " THEN 3
    ELSE IF prompt = "a prompt of 4001 characters" THEN MaxPromptLength + 1
    ELSE 12
\* (variant: only the empty string is refused)
IsBlank_EmptyOnly(prompt) == prompt = ""
IsBlank(prompt) == prompt \in {"", "   "}

MaxImages == 2
Rands == {"r1"}
Ticks == {0, 1}

\* The state a freshly constructed ImgMcp is in
Constructed ==
    /\ pc = "new"
    /\ config = Null
    /\ genAI = Null
    /\ configSource = "not_configured"
    /\ lastImagePath = NoPath
    /\ imageMetadata = <<>>
    /\ pathValidator = Null
    /\ tasks = <<>>

MainInitWith(onDisk) ==
    /\ Constructed
    /\ envKey \in {None, "K1"}
    /\ configFile \in {Null, [geminiApiKey |-> "K2", outputDirectory |-> NoPath]}
    /\ metaFiles = [d \in MetaDirs |-> NoFile]
    /\ files = onDisk
    /\ clock = 0
    /\ reply = NoReply
    /\ errorLog = {}
    /\ created = 0
    /\ persisted = [d \in MetaDirs |-> NoFile]
MainInit == MainInitWith({})

\* loadConfig: the environment first, then the configuration file
LoadedConfig ==
    IF envKey # None /\ ParseConfig([geminiApiKey |-> envKey, outputDirectory |-> NoPath]) # Null
    THEN [config |-> ParseConfig([geminiApiKey |-> envKey, outputDirectory |-> NoPath]),
          source |-> "environment"]
    ELSE IF configFile # Null /\ ParseConfig(configFile) # Null
    THEN [config |-> ParseConfig(configFile), source |-> "config_file"]
    ELSE [config |-> Null, source |-> "not_configured"]

\* run(): loadConfig, then loadMetadata
Run ==
    /\ pc = "new"
    /\ pc' = "running"
    /\ LET loaded == LoadedConfig
           dir == ImagesDirOf(loaded.config)
       IN  /\ config' = loaded.config
           /\ configSource' = loaded.source
           /\ genAI' = IF loaded.config = Null THEN Null
                       ELSE [apiKey |-> loaded.config.geminiApiKey]
           /\ pathValidator' = IF loaded.config = Null THEN Null
                               ELSE NewPathValidator(loaded.config)
           /\ imageMetadata' = IF ~metaFiles[dir].exists THEN <<>>
                               ELSE LoadMetadata(metaFiles[dir].content, files)
    /\ reply' = [op |-> "run"]
    /\ errorLog' = {}
    /\ UNCHANGED <<lastImagePath, diskVars, created, persisted, pvVars, rtVars, tasks>>

\* The process ends and a new one is constructed.
Exit ==
    /\ pc = "running"
    /\ pc' = "new"
    /\ config' = Null
    /\ genAI' = Null
    /\ configSource' = "not_configured"
    /\ lastImagePath' = NoPath
    /\ imageMetadata' = <<>>
    /\ pathValidator' = Null
    /\ reply' = NoReply
    /\ errorLog' = {}
    /\ UNCHANGED <<diskVars, created, persisted, pvVars, rtVars, tasks>>

\* Somebody else removes an image file.
ExternalUnlink ==
    /\ \E p \in files : files' = files \ {p}
    /\ reply' = NoReply
    /\ errorLog' = {}
    /\ UNCHANGED <<procVars, envKey, configFile, metaFiles, clock, created, persisted,
                   pvVars, rtVars, tasks>>

\* The tool call's answer and log, through the CallToolRequest handler
\* extra: what else the step showed (the upstream request, the listed images)
NoExtra == [none |-> TRUE]
AnswerWith(op, arg, result, extra) ==
    /\ reply' = [op |-> op, arg |-> arg, ok |-> result.ok, mcp |-> Dispatch(result).mcp,
                 code |-> Dispatch(result).code, message |-> Dispatch(result).message,
                 upstreamCalls |-> result.upstreamCalls, extra |-> extra]
    /\ errorLog' = result.logged \cup DispatchLog(Dispatch(result))
Answer(op, arg, result) == AnswerWith(op, arg, result, NoExtra)
\* What a call that reached saveMetadata saw of it: whether the write went through
Persist(saveOk) == [persist |-> saveOk]

Result(ok, mcp, code, message, calls, logged) ==
    [ok |-> ok, mcp |-> mcp, code |-> code, message |-> message,
     upstreamCalls |-> calls, logged |-> logged]
Ok(message) == Result(TRUE, FALSE, None, message, 0, {})
Throw(error, calls, logged) ==
    Result(FALSE, error.mcp, error.code, error.message, calls, logged)

\* saveMetadata of index m by a process configured with cfg
\* (variant: .metadata.json is left as it was)
SavedMeta_NotWritten(cfg, m) == metaFiles
SavedMeta(cfg, m) == [metaFiles EXCEPT ![ImagesDirOf(cfg)] = File(StringifyArray(m))]
SavedSnapshot(cfg, m) == [persisted EXCEPT ![ImagesDirOf(cfg)] = File(m)]
DiskFull == PlainError(<<"ENOSPC: no space left on device, write">>)

\* configure_gemini_token
ConfigureGeminiToken(apiKey, writeOk) ==
    /\ pc = "running"
    /\ IF ParseConfig([geminiApiKey |-> apiKey, outputDirectory |-> NoPath]) = Null
       THEN /\ Answer("configure_gemini_token", apiKey,
                      Throw(Mcp(InvalidParams, <<"Invalid API key: Gemini API key is required">>), 0, {}))
            /\ UNCHANGED <<config, genAI, configSource, pathValidator, configFile>>
       ELSE LET cfg == [geminiApiKey |-> apiKey, outputDirectory |-> NoPath]
            IN  /\ config' = cfg
                /\ genAI' = [apiKey |-> apiKey]
                /\ configSource' = "config_file"
                /\ pathValidator' = NewPathValidator(cfg)
                /\ IF writeOk
                   THEN /\ configFile' = ConfigToSave(cfg, "config_file")
                        /\ Answer("configure_gemini_token", apiKey,
                                  Ok(<<"Gemini API token configured successfully">>))
                   ELSE /\ configFile' = configFile
                        /\ Answer("configure_gemini_token", apiKey, Throw(DiskFull, 0, {}))
    /\ UNCHANGED <<pc, lastImagePath, imageMetadata, envKey, metaFiles, files, clock,
                   created, persisted, pvVars, rtVars, tasks>>

\* delete_image; imageId is an id or the img://image/ URI of one
UriPrefix == "img://image/"
IdOfArgument(imageId) ==
    IF StartsWith(imageId, <<UriPrefix>>) THEN Tail(imageId) ELSE imageId

DeleteImage(imageId, saveOk) ==
    /\ pc = "running"
    /\ LET id == IdOfArgument(imageId)
       IN  IF ~MapHas(imageMetadata, id)
           THEN /\ Answer("delete_image", id,
                          Throw(Mcp(InvalidParams, <<"Image not found: ">> \o id), 0, {}))
                /\ UNCHANGED <<imageMetadata, files, metaFiles, persisted>>
           ELSE LET metadata == MapGet(imageMetadata, id)
                    unlinked == metadata.filePath \in files
                    warned == IF unlinked THEN {}
                              ELSE {<<"Failed to delete image file ">> \o metadata.filePath}
                    after == MapDelete(imageMetadata, id)
                IN  /\ files' = files \ {metadata.filePath}
                    /\ imageMetadata' = after
                    /\ IF saveOk
                       THEN /\ metaFiles' = SavedMeta(config, after)
                            /\ persisted' = SavedSnapshot(config, after)
                            /\ AnswerWith("delete_image", id,
                                 Result(TRUE, FALSE, None,
                                        <<"Image deleted successfully: ">> \o id, 0, warned),
                                 Persist(TRUE))
                       ELSE /\ UNCHANGED <<metaFiles, persisted>>
                            /\ AnswerWith("delete_image", id, Throw(DiskFull, 0, warned),
                                          Persist(FALSE))
    /\ UNCHANGED <<pc, config, genAI, configSource, lastImagePath, pathValidator,
                   envKey, configFile, clock, created, pvVars, rtVars, tasks>>

\* The id made from the clock and Math.random, and the record of a new image
NewId(t, rand) == <<ToString(t), "-", rand>>
NewMetadata(id, filePath, prompt, type, t, model, format, size, refs, parent) ==
    [id |-> id, filePath |-> filePath, uri |-> <<UriPrefix>> \o id, prompt |-> prompt,
     type |-> type, timestamp |-> t, model |-> model, format |-> format, size |-> size,
     referenceImages |-> refs, parentImageId |-> parent]

\* The message of the error thrown from a tool's catch block
FailedMessage(what, error) == <<what>> \o error.message

\* generate_image.  outs: the outcomes of the upstream calls; tick, rand: the
\* clock's advance and Math.random at the id; writeOk, saveOk: do the writes of
\* the image file and of .metadata.json succeed.
GenerateImage(prompt, model, format, outs, tick, rand, writeOk, saveOk) ==
    /\ pc = "running"
    /\ created < MaxImages
    /\ LET selectedModel == IF model # NoModel THEN model ELSE DefaultModel
           selectedFormat == IF format # None THEN format ELSE DefaultFormat
           imagesDir == ImagesDirOf(config)
           run == retryWithBackoff(outs, DefaultMaxRetries, DefaultInitialDelay)
           warned == {run.warned[i] : i \in 1..Len(run.warned)}
           imageData == IF isImagenModel(selectedModel)
                        THEN ImageDataOfImages(run.result)
                        ELSE ImageDataOfContent(run.result)
           t == clock + tick
           imageId == NewId(t, rand)
           filePath == PathJoin(imagesDir, <<"generated-">> \o imageId \o <<DOT, selectedFormat>>)
           metadata == NewMetadata(imageId, filePath, prompt, "generated", t, selectedModel,
                                   selectedFormat, PayloadSize(imageData), Undefined, Undefined)
           after == MapSet(imageMetadata, metadata)
           arg == [prompt |-> prompt, model |-> model, format |-> format]
           seen == [payload |-> HasPayload(run.result), id |-> imageId]
           Fail(error, calls) ==
               Throw(Mcp(InternalError, FailedMessage("Failed to generate image: ", error)),
                     calls, warned \cup {error.message})
       IN  IF ~ensureConfigured
           THEN /\ Answer("generate_image", arg,
                          Throw(Mcp(InvalidRequest, <<"Gemini API token not configured">>), 0, {}))
                /\ UNCHANGED <<lastImagePath, imageMetadata, files, metaFiles, clock,
                               created, persisted>>
           ELSE IF IsBlank(prompt)
           THEN /\ Answer("generate_image", arg,
                          Throw(Mcp(InvalidParams, <<"Prompt cannot be empty">>), 0, {}))
                /\ UNCHANGED <<lastImagePath, imageMetadata, files, metaFiles, clock,
                               created, persisted>>
           ELSE IF PromptLength(prompt) > MaxPromptLength
           THEN /\ Answer("generate_image", arg,
                          Throw(Mcp(InvalidParams, <<"Prompt too long">>), 0, {}))
                /\ UNCHANGED <<lastImagePath, imageMetadata, files, metaFiles, clock,
                               created, persisted>>
           ELSE IF ~run.result.ok
           THEN /\ Answer("generate_image", arg, Fail(run.result, run.calls))
                /\ UNCHANGED <<lastImagePath, imageMetadata, files, metaFiles, clock,
                               created, persisted>>
           ELSE IF imageData = Undefined
           THEN /\ AnswerWith("generate_image", arg,
                          Result(TRUE, FALSE, None, <<"Note: No image was generated">>,
                                 run.calls, warned), seen)
                /\ UNCHANGED <<lastImagePath, imageMetadata, files, metaFiles, clock,
                               created, persisted>>
           ELSE IF ~writeOk
           THEN /\ AnswerWith("generate_image", arg, Fail(DiskFull, run.calls), seen)
                /\ UNCHANGED <<lastImagePath, imageMetadata, files, metaFiles, clock,
                               created, persisted>>
           ELSE /\ clock' = t
                /\ created' = created + 1
                /\ files' = files \cup {filePath}
                /\ lastImagePath' = filePath
                /\ imageMetadata' = after
                /\ IF saveOk
                   THEN /\ metaFiles' = SavedMeta(config, after)
                        /\ persisted' = SavedSnapshot(config, after)
                        /\ AnswerWith("generate_image", arg,
                                  Result(TRUE, FALSE, None,
                                         <<"Image saved to: ">> \o filePath, run.calls, warned),
                                  seen @@ Persist(TRUE))
                   ELSE /\ UNCHANGED <<metaFiles, persisted>>
                        /\ AnswerWith("generate_image", arg, Fail(DiskFull, run.calls),
                                      seen @@ Persist(FALSE))
    /\ UNCHANGED <<pc, config, genAI, configSource, pathValidator, envKey, configFile,
                   pvVars, rtVars, tasks>>

\* (variant: every entry is kept, without a warning)
RefLoop_KeepsAll(allowedDirectories, onDisk, refs, i, kept, warned) ==
    [kept |-> refs, warned |-> {}]

\* The reference images loop of editImage: the validated paths kept, in order,
\* and the warnings logged for the entries skipped.
RECURSIVE RefLoop(_, _, _, _, _, _)
RefLoop(allowedDirectories, onDisk, refs, i, kept, warned) ==
    IF i > Len(refs) THEN [kept |-> kept, warned |-> warned]
    ELSE LET v == validateAndSanitize(allowedDirectories, Cwd, refs[i])
             invalid == <<"Reference image not found or invalid ">> \o refs[i]
             format == <<"Reference image is not a supported format ">> \o refs[i]
         IN  IF ~v.ok
             THEN RefLoop(allowedDirectories, onDisk, refs, i + 1, kept, warned \cup {invalid})
             ELSE IF ~isImageFile(v.path)
             THEN RefLoop(allowedDirectories, onDisk, refs, i + 1, kept, warned \cup {format})
             ELSE IF v.path \notin onDisk
             THEN RefLoop(allowedDirectories, onDisk, refs, i + 1, kept, warned \cup {invalid})
             ELSE RefLoop(allowedDirectories, onDisk, refs, i + 1, Append(kept, v.path), warned)

\* editImage from the reference images loop on: validator, validated, loop and
\* run are this.pathValidator, the validated imagePath, the outcome of the
\* loop and the outcome of the upstream calls.
EditWith(op, arg, imagePath, prompt, refs, validator, validated, loop, run, tick, rand, writeOk, saveOk) ==
    LET validatedReferenceImages == loop.kept
        selectedModel == DefaultModel
        selectedFormat == DefaultFormat
        warned == loop.warned \cup {run.warned[i] : i \in 1..Len(run.warned)}
        imagesDir == ImagesDirOf(config)
        parentMetadata == FindByPath(imageMetadata, validated.path)
        imageData == ImageDataOfContent(run.result)
        t == clock + tick
        imageId == NewId(t, rand)
        filePath == PathJoin(imagesDir, <<"edited-">> \o imageId \o <<DOT, selectedFormat>>)
        metadata == NewMetadata(imageId, filePath, prompt, "edited", t, selectedModel,
                        selectedFormat, PayloadSize(imageData),
                        IF Len(validatedReferenceImages) > 0
                        THEN Some(validatedReferenceImages) ELSE Undefined,
                        IF parentMetadata = Undefined THEN Undefined
                        ELSE Some(parentMetadata.v.id))
        after == MapSet(imageMetadata, metadata)
        seen == [payload |-> HasPayload(run.result), id |-> imageId,
                 sent |-> <<validated.path>> \o validatedReferenceImages]
        Fail(error, calls) ==
            Throw(Mcp(InternalError, FailedMessage("Failed to edit image: ", error)),
                  calls, warned \cup {error.message})
        Same == UNCHANGED <<lastImagePath, imageMetadata, files, metaFiles, clock,
                            created, persisted>>
    IN  /\ pathValidator' = validator
        /\ IF ~validated.ok
           THEN /\ Answer(op, arg, Throw(Mcp(validated.code, validated.message), 0, {}))
                /\ Same
           ELSE IF ~isImageFile(validated.path)
           THEN /\ Answer(op, arg,
                     Throw(Mcp(InvalidParams,
                               <<"File is not a supported image format: ">> \o imagePath), 0, {}))
                /\ Same
           ELSE IF refs # Undefined /\ Len(refs.v) > MaxReferenceImages
           THEN /\ Answer(op, arg,
                     Throw(Mcp(InvalidParams, <<"Too many reference images">>), 0, {}))
                /\ Same
           ELSE IF validated.path \notin files
           THEN /\ Answer(op, arg,
                     Throw(Mcp(InvalidParams, <<"Image file not found: ">> \o imagePath), 0,
                           {}))
                /\ Same
           ELSE IF ~run.result.ok
           THEN /\ AnswerWith(op, arg, Fail(run.result, run.calls), seen)
                /\ Same
           ELSE IF imageData = Undefined
           THEN /\ AnswerWith(op, arg,
                     Result(TRUE, FALSE, None, <<"Note: No edited image was generated">>,
                            run.calls, warned), seen)
                /\ Same
           ELSE IF ~writeOk
           THEN /\ AnswerWith(op, arg, Fail(DiskFull, run.calls), seen)
                /\ Same
           ELSE /\ clock' = t
                /\ created' = created + 1
                /\ files' = files \cup {filePath}
                /\ lastImagePath' = filePath
                /\ imageMetadata' = after
                /\ IF saveOk
                   THEN /\ metaFiles' = SavedMeta(config, after)
                        /\ persisted' = SavedSnapshot(config, after)
                        /\ AnswerWith(op, arg,
                             Result(TRUE, FALSE, None,
                                    <<"Edited image saved to: ">> \o filePath, run.calls,
                                    warned), seen @@ Persist(TRUE))
                   ELSE /\ UNCHANGED <<metaFiles, persisted>>
                        /\ AnswerWith(op, arg, Fail(DiskFull, run.calls),
                                      seen @@ Persist(FALSE))

\* (variant: the gate answers with InvalidParams)
NotConfigured_InvalidParams ==
    Throw(Mcp(InvalidParams, <<"Gemini API token not configured">>), 0, {})

\* editImage after the ensureConfigured test, answering as tool op.  refs is
\* Undefined or Some(list of paths).
EditBody(op, arg, imagePath, prompt, refs, outs, tick, rand, writeOk, saveOk) ==
    LET validator == IF pathValidator = Null THEN NewPathValidator(config) ELSE pathValidator
    IN  EditWith(op, arg, imagePath, prompt, refs, validator,
                 validateAndSanitize(validator.allowedDirectories, Cwd, imagePath),
                 RefLoop(validator.allowedDirectories, files,
                         IF refs = Undefined THEN <<>> ELSE refs.v, 1, <<>>, {}),
                 retryWithBackoff(outs, DefaultMaxRetries, DefaultInitialDelay),
                 tick, rand, writeOk, saveOk)

NotConfigured ==
    Throw(Mcp(InvalidRequest, <<"Gemini API token not configured">>), 0, {})

\* edit_image
EditImage(imagePath, prompt, refs, outs, tick, rand, writeOk, saveOk) ==
    /\ pc = "running"
    /\ created < MaxImages
    /\ LET arg == [imagePath |-> imagePath, prompt |-> prompt, referenceImages |-> refs]
       IN  IF ~ensureConfigured
           THEN /\ Answer("edit_image", arg, NotConfigured)
                /\ UNCHANGED <<lastImagePath, imageMetadata, files, metaFiles, clock,
                               created, persisted, pathValidator>>
           ELSE EditBody("edit_image", arg, imagePath, prompt, refs, outs, tick, rand,
                         writeOk, saveOk)
    /\ UNCHANGED <<pc, config, genAI, configSource, envKey, configFile, pvVars, rtVars, tasks>>

\* (variant: the file at lastImagePath is not looked for)
ContinueEditing_NoAccessCheck(prompt, refs, outs, tick, rand, writeOk, saveOk) ==
    /\ pc = "running"
    /\ created < MaxImages
    /\ LET arg == [prompt |-> prompt, referenceImages |-> refs]
           Same == UNCHANGED <<lastImagePath, imageMetadata, files, metaFiles, clock,
                               created, persisted, pathValidator>>
       IN  IF ~ensureConfigured
           THEN /\ Answer("continue_editing", arg, NotConfigured)
                /\ Same
           ELSE IF lastImagePath = NoPath
           THEN /\ Answer("continue_editing", arg,
                     Throw(Mcp(InvalidRequest, <<"No previous image found">>), 0, {}))
                /\ Same
           ELSE EditBody("continue_editing", arg, lastImagePath, prompt, refs, outs, tick,
                         rand, writeOk, saveOk)
    /\ UNCHANGED <<pc, config, genAI, configSource, envKey, configFile, pvVars, rtVars, tasks>>

\* continue_editing: edit_image of the image at lastImagePath
ContinueEditing(prompt, refs, outs, tick, rand, writeOk, saveOk) ==
    /\ pc = "running"
    /\ created < MaxImages
    /\ LET arg == [prompt |-> prompt, referenceImages |-> refs]
           Same == UNCHANGED <<lastImagePath, imageMetadata, files, metaFiles, clock,
                               created, persisted, pathValidator>>
       IN  IF ~ensureConfigured
           THEN /\ Answer("continue_editing", arg, NotConfigured)
                /\ Same
           ELSE IF lastImagePath = NoPath
           THEN /\ Answer("continue_editing", arg,
                     Throw(Mcp(InvalidRequest, <<"No previous image found">>), 0, {}))
                /\ Same
           ELSE IF lastImagePath \notin files
           THEN /\ Answer("continue_editing", arg,
                     Throw(Mcp(InvalidRequest,
                               <<"Last image file not found at: ">> \o lastImagePath), 0, {}))
                /\ Same
           ELSE EditBody("continue_editing", arg, lastImagePath, prompt, refs, outs, tick,
                         rand, writeOk, saveOk)
    /\ UNCHANGED <<pc, config, genAI, configSource, envKey, configFile, pvVars, rtVars, tasks>>

\* Array.prototype.sort by timestamp, newest first; the sort is stable.
RECURSIVE InsertNewestFirst(_, _)
InsertNewestFirst(sorted, img) ==
    IF Len(sorted) = 0 THEN <<img>>
    ELSE IF Head(sorted).timestamp >= img.timestamp
    THEN <<Head(sorted)>> \o InsertNewestFirst(Tail(sorted), img)
    ELSE <<img>> \o sorted
RECURSIVE SortNewestFirst(_)
SortNewestFirst(images) ==
    IF Len(images) = 0 THEN <<>>
    ELSE InsertNewestFirst(SortNewestFirst(SubSeq(images, 1, Len(images) - 1)),
                           images[Len(images)])

\* Array.prototype.slice(0, n) for n >= 0
Slice(images, n) == SubSeq(images, 1, IF n < Len(images) THEN n ELSE Len(images))

DefaultLimit == 50
\* args.limit || 50 and args.type || "all": 0 and undefined give the default
EffectiveLimit(limit) == IF limit = Undefined \/ limit.v = 0 THEN DefaultLimit ELSE limit.v
EffectiveType(type) == IF type = None THEN "all" ELSE type

\* The properties of a record that list_images shows
Listed(img) ==
    [id |-> img.id, uri |-> img.uri, prompt |-> img.prompt, type |-> img.type,
     timestamp |-> img.timestamp, filePath |-> img.filePath, size |-> img.size,
     model |-> img.model, format |-> img.format]

listImages(m, limit, type) ==
    LET filterType == EffectiveType(type)
        filtered == IF filterType # "all"
                    THEN SelectSeq(m, LAMBDA img : img.type = filterType) ELSE m
        images == Slice(SortNewestFirst(filtered), EffectiveLimit(limit))
    IN  [i \in 1..Len(images) |-> Listed(images[i])]

\* list_images; limit is Undefined or Some(n), type is None or a type
ListImages(limit, type) ==
    /\ pc = "running"
    /\ AnswerWith("list_images", [limit |-> limit, type |-> type],
                  Ok(<<"Found ", ToString(Len(listImages(imageMetadata, limit, type))),
                       " image(s)">>),
                  [images |-> listImages(imageMetadata, limit, type)])
    /\ UNCHANGED <<procVars, diskVars, created, persisted, pvVars, rtVars, tasks>>

\* The ReadResource handler: img://gallery, img://config, img://image/{id}.
\* The image is read from the record's filePath as it is stored.
Gallery(m) ==
    [i \in 1..Len(m) |-> [id |-> m[i].id, uri |-> m[i].uri, prompt |-> m[i].prompt,
                          type |-> m[i].type, timestamp |-> m[i].timestamp,
                          filePath |-> m[i].filePath]]
Contents(uri, extra) ==
    [op |-> "read_resource", arg |-> uri, ok |-> TRUE, mcp |-> FALSE, code |-> None,
     message |-> <<>>, upstreamCalls |-> 0, extra |-> extra]
ReadThrows(uri, error) ==
    [op |-> "read_resource", arg |-> uri, ok |-> FALSE, mcp |-> error.mcp,
     code |-> error.code, message |-> error.message, upstreamCalls |-> 0,
     extra |-> NoExtra]
ReadResource(uri) ==
    /\ pc = "running"
    /\ reply' =
         IF uri = <<"img://gallery">> THEN Contents(uri, [images |-> Gallery(imageMetadata)])
         ELSE IF uri = <<"img://config">>
         THEN Contents(uri, [configured |-> config # Null, configSource |-> configSource])
         ELSE IF StartsWith(uri, <<UriPrefix>>)
         THEN LET imageId == Tail(uri)
              IN  IF ~MapHas(imageMetadata, imageId)
                  THEN ReadThrows(uri, Mcp(InvalidParams, <<"Image not found: ">> \o imageId))
                  ELSE IF MapGet(imageMetadata, imageId).filePath \in files
                  THEN Contents(uri, [read |-> MapGet(imageMetadata, imageId).filePath,
                                      mimeType |-> <<"image/",
                                                     MapGet(imageMetadata, imageId).format>>])
                  ELSE ReadThrows(uri, Mcp(InternalError,
                                       <<"Failed to read image: ", "ENOENT">>))
         ELSE ReadThrows(uri, Mcp(InvalidParams, <<"Unknown resource: ">> \o uri))
    /\ errorLog' = {}
    /\ UNCHANGED <<procVars, diskVars, created, persisted, pvVars, rtVars, tasks>>

PvIdle == pvEnv = Null /\ pvInput = NoPath /\ pvResult = Null
RtIdle == rtArgs = Null /\ rtRun = Null
\* The process is not started in the runs of one function.
MainIdle ==
    /\ Constructed
    /\ envKey = None /\ configFile = Null /\ files = {} /\ clock = 0
    /\ metaFiles = [d \in MetaDirs |-> NoFile]
    /\ reply = NoReply /\ errorLog = {} /\ created = 0
    /\ persisted = [d \in MetaDirs |-> NoFile]

\* The ids a delete_image call is tried with: those in the index, the one of the
\* call before (a repeated call), and one that never existed.
GhostId == <<"0", "-", "none">>
DeleteIds ==
    MapIds(imageMetadata) \cup {GhostId}
        \cup (IF reply.op = "delete_image" THEN {reply.arg} ELSE {})

\* The generate_image calls tried.  What a call does not reach (the upstream
\* outcomes of a rejected prompt, the writes of a call without an image) is
\* given one value only.  The upstream calls fail not at all, once (a
\* transient error, then the response) or every time (any error); the failing
\* calls are tried with the default model.
UpstreamKey == IF genAI = Null THEN None ELSE genAI.apiKey
ResponsesOf(model) == IF isImagenModel(model) THEN ImagesResponses ELSE ContentResponses
NoImageResponse(model) ==
    IF isImagenModel(model) THEN [ok |-> TRUE, generatedImages |-> <<>>]
    ELSE [ok |-> TRUE, parts |-> <<TextPart>>]
GenerateModels == {NoModel, ImagenModel}
FailCounts == {0, 1, DefaultMaxRetries + 1}
AnyRand == CHOOSE r \in Rands : TRUE
Reaches(prompt) == ensureConfigured /\ ~IsBlank(prompt) /\ PromptLength(prompt) <= MaxPromptLength

GenerateCall ==
    \E prompt \in Prompts :
    \E model \in (IF Reaches(prompt) THEN GenerateModels ELSE {NoModel}) :
    \E nFail \in (IF Reaches(prompt) /\ model = NoModel THEN FailCounts ELSE {0}) :
    \E first \in (IF nFail > DefaultMaxRetries THEN UpstreamErrors(UpstreamKey)
                   ELSE TransientErrors) :
    \E final \in (IF Reaches(prompt) /\ nFail <= DefaultMaxRetries
                   THEN ResponsesOf(IF model = NoModel THEN DefaultModel ELSE model)
                   ELSE {NoImageResponse(DefaultModel)}) :
    \E writeOk \in (IF final = NoImageResponse(DefaultModel) THEN {TRUE} ELSE BOOLEAN) :
    \E tick \in (IF writeOk /\ final # NoImageResponse(DefaultModel) THEN Ticks ELSE {0}) :
    \E rand \in (IF writeOk /\ final # NoImageResponse(DefaultModel) THEN Rands ELSE {AnyRand}) :
    \E saveOk \in (IF writeOk /\ final # NoImageResponse(DefaultModel) THEN BOOLEAN ELSE {TRUE}) :
        GenerateImage(prompt, model, None, UpstreamOuts(nFail, first, first, final),
                      tick, rand, writeOk, saveOk)

\* An image of the user's, in the working directory when the process starts
UserImage == Cwd \o <<SEP, "photo", DOT, "png">>
\* The paths an edit_image call is tried with: an image that the server wrote,
\* a path outside the allowed directories, a file that is no image, a missing
\* image.
OutsidePath == <<SEP, "etc", SEP, "passwd">>
TextFile == Cwd \o <<SEP, "notes", DOT, "txt">>
MissingImage == Cwd \o <<SEP, "missing", DOT, "png">>
EditPaths == (files \ {UserImage}) \cup {OutsidePath, TextFile, MissingImage}
EditPrompts == {"make it blue"}

\* The referenceImages tried with source src: none, more than the maximum, and
\* a list of the maximum length in which images (the user's and src) are mixed
\* with paths that are skipped.
TooManyRefs == [i \in 1..(MaxReferenceImages + 1) |-> MissingImage]
RefLists(src) ==
    {Undefined, Some(TooManyRefs),
     Some(<<UserImage, OutsidePath, MissingImage, TextFile, src>>)}

\* The upstream outcomes, clock and writes of the edit_image calls tried with
\* source src.  What a call does not reach is given one value only; the calls
\* with reference images are tried with an upstream call that answers with an
\* image that is written.
ImageResponse == [ok |-> TRUE, parts |-> <<TextPart, ImagePart>>]
EditCalls(src) ==
    {c \in [prompt : EditPrompts, refs : RefLists(src), nFail : {0, DefaultMaxRetries + 1},
            final : ContentResponses \cup {ImageResponse}, writeOk : BOOLEAN,
            tick : Ticks, saveOk : BOOLEAN] :
        LET plain == src \in files /\ c.refs = Undefined
            written == plain /\ c.nFail = 0 /\ c.final = ImageResponse /\ c.writeOk
        IN  /\ src \notin files => c.refs = Undefined
            /\ ~plain => c.nFail = 0
            /\ ~(plain /\ c.nFail = 0) => c.final = ImageResponse
            /\ ~(plain /\ c.nFail = 0 /\ c.final = ImageResponse) => c.writeOk
            /\ ~(src \in files /\ c.nFail = 0 /\ c.refs # Some(TooManyRefs)
                   /\ c.final = ImageResponse /\ c.writeOk) => c.tick = 0
            /\ ~written => c.saveOk}
\* The outcomes of the upstream calls of call c
EditOuts(c) ==
    UpstreamOuts(c.nFail, CHOOSE e \in TerminalErrors(UpstreamKey) : TRUE,
                 CHOOSE e \in TerminalErrors(UpstreamKey) : TRUE, c.final)

EditCall ==
    \E imagePath \in (IF ensureConfigured THEN EditPaths ELSE {UserImage}) :
    \E c \in EditCalls(imagePath) :
        EditImage(imagePath, c.prompt, c.refs, EditOuts(c), c.tick, AnyRand, c.writeOk,
                  c.saveOk)

ContinueCall ==
    \E c \in EditCalls(IF ensureConfigured /\ lastImagePath # NoPath
                       THEN lastImagePath ELSE OutsidePath) :
        ContinueEditing(c.prompt, c.refs, EditOuts(c), c.tick, AnyRand, c.writeOk,
                        c.saveOk)

\* The list_images call tried in the process: list({})
ListCall == ListImages(Undefined, None)

Next ==
    \/ Run
    \/ Exit
    \/ ExternalUnlink
    \/ \E apiKey \in {"K2", ""}, writeOk \in BOOLEAN : ConfigureGeminiToken(apiKey, writeOk)
    \/ \E id \in DeleteIds, uri \in BOOLEAN :
       \E saveOk \in (IF MapHas(imageMetadata, id) THEN BOOLEAN ELSE {TRUE}) :
          DeleteImage(IF uri THEN <<UriPrefix>> \o id ELSE id, saveOk)
    \/ GenerateCall

Init == MainInit /\ PvIdle /\ RtIdle

Spec == Init /\ [][Next]_vars

(***************************************************************************)
(* Properties of the process (specification Spec)                          *)
(***************************************************************************)
ImagesDir == ImagesDirOf(config)
FailedTool(op) == reply.op = op /\ ~reply.ok
\* The upstream error that quotes the key it was called with
BadCredentialText == <<"API key not valid: ">>

\* C4 (as stated): when generate_image fails on an upstream error, neither the
\* message returned to the caller nor a logged message contains the
\* configured API key.
C4_CredentialRedacted ==
    (FailedTool("generate_image") /\ genAI # Null) =>
        /\ ~Includes(reply.message, <<genAI.apiKey>>)
        /\ \A m \in errorLog : ~Includes(m, <<genAI.apiKey>>)

\* C5 (as stated): the configuration file written by a successful
\* configure_gemini_token holds the redacted placeholder, not the credential.
C5_SnapshotRedacted ==
    (reply.op = "configure_gemini_token" /\ reply.ok) =>
        /\ configFile # Null
        /\ configFile.geminiApiKey = Redacted

\* C5 (amended): saveConfig redacts the credential of a configuration that
\* came from the environment and writes any other configuration as it is; its
\* one caller, configure_gemini_token, sets the source to config_file first,
\* so the file it writes holds the credential it was given, in full.
C5_SnapshotHoldsCredential ==
    /\ \A k \in Keys :
          LET cfg == [geminiApiKey |-> k, outputDirectory |-> NoPath]
          IN  /\ ConfigToSave(cfg, "environment").geminiApiKey = Redacted
              /\ ConfigToSave(cfg, "config_file") = cfg
    /\ (reply.op = "configure_gemini_token" /\ reply.ok) =>
          /\ configSource = "config_file"
          /\ configFile # Null
          /\ configFile.geminiApiKey = reply.arg
          /\ configFile.geminiApiKey = config.geminiApiKey

\* A session configured from the environment in which configure_gemini_token
\* has succeeded
C5_Witness ==
    /\ reply.op = "configure_gemini_token" /\ reply.ok
    /\ envKey # None

\* C8 (as stated): a generate_image that fails on the terminal bad-credential
\* error has called the upstream service once.
C8_TerminalNotRetried ==
    (FailedTool("generate_image") /\ Includes(reply.message, BadCredentialText)) =>
        reply.upstreamCalls = 1

\* Equality of two records by field values
SameFields(a, b) == \A f \in MetadataFields : Field(a, f) = Field(b, f)
\* index m holds exactly the records of index n whose file is in onDisk
IsRestriction(m, n, onDisk) ==
    /\ MapIds(m) = {n[i].id : i \in {j \in 1..Len(n) : n[j].filePath \in onDisk}}
    /\ \A i \in 1..Len(m) : SameFields(m[i], MapGet(n, m[i].id))
    /\ \A i, j \in 1..Len(m) : m[i].id = m[j].id => i = j

\* C9: the index of a process that has just loaded is the index last saved
\* to .metadata.json, by ids and field values, restricted to the records
\* whose image file exists at the load.
C9_RoundTrip ==
    (reply.op = "run" /\ persisted[ImagesDir].exists) =>
        IsRestriction(imageMetadata, persisted[ImagesDir].content, files)

\* A load that kept one record of the saved index and dropped another
C9_Witness ==
    /\ reply.op = "run" /\ persisted[ImagesDir].exists
    /\ Len(persisted[ImagesDir].content) = 2
    /\ Len(imageMetadata) = 1

NotFound == reply'.mcp /\ reply'.code = InvalidParams
              /\ StartsWith(reply'.message, <<"Image not found: ">>)

ToolPrompts == {"", "red circle"}
GenerateCallTools ==
    \E prompt \in ToolPrompts :
    \E model \in (IF Reaches(prompt) THEN GenerateModels ELSE {NoModel}) :
    \E nFail \in (IF Reaches(prompt) /\ model = NoModel
                  THEN {0, DefaultMaxRetries + 1} ELSE {0}) :
    \E first \in TransientErrors :
    \E final \in (IF Reaches(prompt) /\ nFail <= DefaultMaxRetries
                   THEN ResponsesOf(IF model = NoModel THEN DefaultModel ELSE model)
                   ELSE {NoImageResponse(DefaultModel)}) :
    \E writeOk \in (IF final = NoImageResponse(DefaultModel) THEN {TRUE} ELSE BOOLEAN) :
    \E tick \in (IF writeOk /\ final # NoImageResponse(DefaultModel) THEN Ticks ELSE {0}) :
    \E rand \in (IF writeOk /\ final # NoImageResponse(DefaultModel) THEN Rands ELSE {AnyRand}) :
    \E saveOk \in (IF writeOk /\ final # NoImageResponse(DefaultModel) THEN BOOLEAN ELSE {TRUE}) :
        GenerateImage(prompt, model, None, UpstreamOuts(nFail, first, first, final),
                      tick, rand, writeOk, saveOk)

NextTools ==
    \/ Run
    \/ Exit
    \/ \E apiKey \in {"K2", ""} : ConfigureGeminiToken(apiKey, TRUE)
    \/ \E id \in DeleteIds :
       \E saveOk \in (IF MapHas(imageMetadata, id) THEN BOOLEAN ELSE {TRUE}) :
          DeleteImage(id, saveOk)
    \/ GenerateCallTools
    \/ EditCall
    \/ ContinueCall
    \/ ListCall

\* The process starts without a key in the environment and without files.
InitTools ==
    /\ MainInitWith({UserImage}) /\ PvIdle /\ RtIdle
    /\ envKey = None /\ configFile = Null

SpecTools == InitTools /\ [][NextTools]_vars

(***************************************************************************)
(* Properties of the process with all its tools (specification SpecTools)  *)
(***************************************************************************)
\* The step is the handling of a call of tool op
Handles(op) == reply'.op = op
\* The call handled last went as far as the upstream response
SawResponse == "payload" \in DOMAIN reply.extra
SeesResponse == "payload" \in DOMAIN reply'.extra

\* C11 (as stated): a generate_image call made on an empty index in a
\* configured session, answered with success after an upstream response that
\* carries an image, leaves exactly one record in the index, of type
\* "generated" and with the call's prompt, and list_images({}) shows it first.
C11_GenerateThenList ==
    [][ (/\ Handles("generate_image") /\ ensureConfigured /\ imageMetadata = <<>>
         /\ reply'.ok /\ SeesResponse /\ reply'.extra.payload) =>
           /\ Len(imageMetadata') = 1
           /\ imageMetadata'[1].type = "generated"
           /\ imageMetadata'[1].prompt = reply'.arg.prompt
           /\ Len(listImages(imageMetadata', Undefined, None)) = 1
           /\ listImages(imageMetadata', Undefined, None)[1].id = imageMetadata'[1].id ]_vars

\* The step is an edit_image call, answered with success after an upstream
\* response that carries an image, whose imagePath is the filePath of a record
\* of type "generated" in the index.
EditsGenerated(A) ==
    /\ Handles("edit_image") /\ reply'.ok /\ SeesResponse /\ reply'.extra.payload
    /\ A.filePath = reply'.arg.imagePath
    /\ A.type = "generated"
\* After such a step: the new record B is of type "edited" with A as its
\* parent, and A is in the index as it was.
ChainsParent(A) ==
    /\ MapHas(imageMetadata', reply'.extra.id)
    /\ MapGet(imageMetadata', reply'.extra.id).type = "edited"
    /\ MapGet(imageMetadata', reply'.extra.id).parentImageId = Some(A.id)
    /\ MapHas(imageMetadata', A.id)
    /\ MapGet(imageMetadata', A.id) = A

Usable(allowedDirectories, p) ==
    /\ validateAndSanitize(allowedDirectories, Cwd, p).ok
    /\ isImageFile(validateAndSanitize(allowedDirectories, Cwd, p).path)
    /\ validateAndSanitize(allowedDirectories, Cwd, p).path \in files
\* The usable entries of refs, validated, in their order
Survivors(allowedDirectories, refs) ==
    LET kept == SelectSeq(refs, LAMBDA p : Usable(allowedDirectories, p))
    IN  [i \in 1..Len(kept) |-> validateAndSanitize(allowedDirectories, Cwd, kept[i]).path]

\* C13: an edit_image call in a configured session with a usable imagePath and
\* at most MaxReferenceImages referenceImages is not rejected: the upstream
\* call is made with the source and the usable references in their order, a
\* warning is logged for every other reference, a failure can only be that of
\* the upstream call or of a write, and the record made lists exactly the
\* usable references (the property is absent when there is none).
C13_BadReferencesSkipped ==
    [][ (/\ Handles("edit_image") /\ ensureConfigured
         /\ reply'.arg.referenceImages # Undefined
         /\ Len(reply'.arg.referenceImages.v) <= MaxReferenceImages
         /\ Usable(pathValidator'.allowedDirectories, reply'.arg.imagePath)) =>
          LET refs == reply'.arg.referenceImages.v
              allowed == pathValidator'.allowedDirectories
              survivors == Survivors(allowed, refs)
          IN  /\ SeesResponse
              /\ reply'.extra.sent =
                   <<validateAndSanitize(allowed, Cwd, reply'.arg.imagePath).path>>
                       \o survivors
              /\ \A i \in 1..Len(refs) :
                    ~Usable(allowed, refs[i]) =>
                        \E m \in errorLog' : Includes(m, refs[i])
              /\ ~reply'.ok => reply'.code = InternalError
              /\ (reply'.ok /\ reply'.extra.payload) =>
                    /\ MapHas(imageMetadata', reply'.extra.id)
                    /\ MapGet(imageMetadata', reply'.extra.id).referenceImages =
                         IF Len(survivors) = 0 THEN Undefined ELSE Some(survivors) ]_vars

\* An edit_image with five references has succeeded with two different
\* references kept and three skipped
C13_Witness ==
    /\ reply.op = "edit_image" /\ reply.ok /\ SawResponse /\ reply.extra.payload
    /\ reply.arg.referenceImages # Undefined
    /\ Len(reply.arg.referenceImages.v) = MaxReferenceImages
    /\ Len(reply.extra.sent) = 3
    /\ reply.extra.sent[2] # reply.extra.sent[3]
    /\ Cardinality(errorLog) >= 2
    /\ MapHas(imageMetadata, reply.extra.id)
    /\ MapGet(imageMetadata, reply.extra.id).referenceImages
         = Some(SubSeq(reply.extra.sent, 2, 3))

\* The NoPriorImage condition: an InvalidRequest saying that there is no
\* previous image or that its file is not found
NoPriorImage(r) ==
    /\ ~r.ok /\ r.code = InvalidRequest
    /\ \/ Includes(r.message, <<"No previous image found">>)
       \/ Includes(r.message, <<"Last image file not found at: ">>)
ImageTools == {"generate_image", "edit_image", "continue_editing"}
\* A continue_editing call in a configured session, with no last image or with
\* its file gone, fails with NoPriorImage, calls no upstream and changes nothing
ContinueNeedsLastImage ==
    (/\ Handles("continue_editing") /\ ensureConfigured
     /\ (lastImagePath = NoPath \/ lastImagePath \notin files)) =>
        /\ NoPriorImage(reply')
        /\ reply'.upstreamCalls = 0
        /\ UNCHANGED <<imageMetadata, metaFiles, files, lastImagePath>>

C15_OneWayGate ==
    [][ /\ (pc = "running" /\ pc' = "running" /\ ensureConfigured) =>
              ensureConfigured'
        /\ (reply'.op \in ImageTools /\ ~ensureConfigured) =>
              /\ ~reply'.ok /\ reply'.code = InvalidRequest
              /\ Includes(reply'.message, <<"Gemini API token not configured">>)
              /\ reply'.upstreamCalls = 0
              /\ ~ensureConfigured'
              /\ UNCHANGED <<files, imageMetadata, metaFiles, lastImagePath>> ]_vars

\* edit_image of an image on disk has been refused in an unconfigured session
C15_Witness ==
    /\ pc = "running" /\ ~ensureConfigured
    /\ reply.op = "edit_image" /\ reply.arg.imagePath \in files
    /\ ~reply.ok /\ reply.code = InvalidRequest

\* The records of index n that index m does not hold as they are
Inserted(m, n) == {i \in 1..Len(n) : \A j \in 1..Len(m) : m[j] # n[i]}

\* C16: in every generate_image, edit_image or continue_editing call, each
\* record that the call puts in the index has its image file on disk (a call
\* whose image write fails inserts nothing), and a call that changes the index
\* and answers with success has left .metadata.json holding that index.
C16_WriteThenRecordThenPersist ==
    [][ reply'.op \in ImageTools =>
          /\ \A i \in Inserted(imageMetadata, imageMetadata') :
                imageMetadata'[i].filePath \in files'
          /\ (reply'.ok /\ Inserted(imageMetadata, imageMetadata') # {}) =>
                /\ metaFiles'[ImagesDir'].exists
                /\ metaFiles'[ImagesDir'].content = StringifyArray(imageMetadata') ]_vars

\* An edit has succeeded and its record is the second of a persisted index
C16_Witness ==
    /\ reply.op = "edit_image" /\ reply.ok /\ SawResponse /\ reply.extra.payload
    /\ Len(imageMetadata) = 2
    /\ imageMetadata[2].id = reply.extra.id
    /\ imageMetadata[2].filePath \in files
    /\ metaFiles[ImagesDir].exists
    /\ metaFiles[ImagesDir].content = StringifyArray(imageMetadata)

\* The call handled in this step reached saveMetadata and the write failed
PersistFails ==
    /\ reply'.op \in ImageTools \cup {"delete_image"}
    /\ "persist" \in DOMAIN reply'.extra /\ ~reply'.extra.persist
\* The change of the index made by the call handled in this step is in place
MutationKept ==
    IF reply'.op = "delete_image"
    THEN MapHas(imageMetadata, reply'.arg) /\ ~MapHas(imageMetadata', reply'.arg)
    ELSE /\ MapHas(imageMetadata', reply'.extra.id)
         /\ MapGet(imageMetadata', reply'.extra.id).filePath = lastImagePath'
         /\ MapGet(imageMetadata', reply'.extra.id).prompt = reply'.arg.prompt
\* .metadata.json holds the index as it is after this step
FileIsIndex ==
    /\ metaFiles'[ImagesDir'].exists
    /\ metaFiles'[ImagesDir'].content = StringifyArray(imageMetadata')

C18_MetadataOwnerOnly ==
    \A d \in MetaDirs : metaFiles[d].exists => metaFiles[d].mode = OwnerOnly

(***************************************************************************)
(* Specification SpecList: list_images as a function of the index, for     *)
(* every short index of a running process and every small limit and type.  *)
(***************************************************************************)
MaxListLen == 3
MaxStamp == 1
MaxLimit == 3

ListTypes == {"generated", "edited"}
\* The record stored at place i of an index, made at time t by the tool of its
\* type; records made at the same time differ by the random part of the id.
StoredRecord(i, t, type) ==
    LET id == NewId(t, "r" \o ToString(i))
    IN  NewMetadata(id,
            PathJoin(ImagesDirOf(Null), <<type, "-">> \o id \o <<DOT, DefaultFormat>>),
            "red circle", type, t, DefaultModel, DefaultFormat, PayloadSize(Bytes),
            Undefined, Undefined)
ListIndexes ==
    UNION {{[i \in 1..n |-> StoredRecord(i, f[i][1], f[i][2])] :
               f \in [1..n -> (0..MaxStamp) \X ListTypes]} : n \in 0..MaxListLen}

\* A running process, not configured, that has loaded its index from
\* .metadata.json, the image files being on disk.
InitList ==
    /\ PvIdle /\ RtIdle
    /\ pc = "running"
    /\ config = Null /\ genAI = Null /\ configSource = "not_configured"
    /\ lastImagePath = NoPath /\ pathValidator = Null
    /\ imageMetadata \in ListIndexes
    /\ envKey = None /\ configFile = Null
    /\ files = {imageMetadata[i].filePath : i \in 1..Len(imageMetadata)}
    /\ metaFiles = [d \in MetaDirs |-> File(StringifyArray(imageMetadata))]
    /\ persisted = [d \in MetaDirs |-> File(imageMetadata)]
    /\ clock = MaxStamp
    /\ reply = [op |-> "run"]
    /\ errorLog = {}
    /\ created = 0
    /\ tasks = <<>>

\* list_images with no limit or a limit of 0..MaxLimit, and no type or a type
NextList ==
    \E limit \in {Undefined} \cup {Some(n) : n \in 0..MaxLimit} :
    \E type \in {None, "all"} \cup ListTypes :
        ListImages(limit, type)

SpecList == InitList /\ [][NextList]_vars

(***************************************************************************)
(* Properties of list_images (specification SpecList)                      *)
(***************************************************************************)
\* The records of index m that a list_images call with argument type is about
Matching(m, type) ==
    {i \in 1..Len(m) : type \in {None, "all"} \/ m[i].type = type}
\* The most records a call with argument limit may show
Cap(limit) == IF limit = Undefined THEN DefaultLimit ELSE limit.v
AtMost(n, k) == IF n < k THEN n ELSE k

\* What is shown is Cap(limit) records, or all the matching ones if there are
\* fewer: each shown once, each a matching record of m, newest first, and no
\* record left out is newer than one shown.
ListsNewest(shown, m, limit, type) ==
    /\ Len(shown) = AtMost(Cardinality(Matching(m, type)), Cap(limit))
    /\ \A k \in 1..Len(shown) : \E i \in Matching(m, type) : shown[k] = Listed(m[i])
    /\ \A k, l \in 1..Len(shown) : shown[k].id = shown[l].id => k = l
    /\ \A k, l \in 1..Len(shown) : k < l => shown[k].timestamp >= shown[l].timestamp
    /\ \A i \in Matching(m, type) :
          (\A k \in 1..Len(shown) : shown[k].id # m[i].id) =>
              \A k \in 1..Len(shown) : shown[k].timestamp >= m[i].timestamp

\* C19 (as stated): list_images shows exactly the records of the asked type,
\* newest first, and never more than limit of them for every limit >= 0 (never
\* more than 50 without a limit), and changes neither the index nor the files.
C19_ListFilterOrderLimit ==
    [][ Handles("list_images") =>
          /\ reply'.ok
          /\ ListsNewest(reply'.extra.images, imageMetadata, reply'.arg.limit,
                         reply'.arg.type)
          /\ UNCHANGED <<imageMetadata, files, metaFiles, lastImagePath>> ]_vars

(***************************************************************************)
(* Specification SpecLoad: the process started on a .metadata.json that it *)
(* finds on disk, and the resources read through the loaded index.         *)
(***************************************************************************)
MaxStored == 2

\* Records found in .metadata.json: one of an image in the images directory,
\* one whose filePath is a file outside the allowed directories, and one whose
\* file is gone.
InsideRecord == StoredRecord(1, 0, "generated")
OutsideRecord == [StoredRecord(2, 0, "generated") EXCEPT !.filePath = OutsidePath]
GoneRecord == StoredRecord(3, 0, "edited")
StoredContents ==
    UNION {[1..n -> {InsideRecord, OutsideRecord, GoneRecord}] : n \in 0..MaxStored}

InitLoad ==
    /\ Constructed /\ PvIdle /\ RtIdle
    /\ envKey = None /\ configFile = Null
    /\ \E content \in StoredContents :
          /\ metaFiles = [d \in MetaDirs |-> File(content)]
          /\ persisted = [d \in MetaDirs |-> File(content)]
    /\ files = {InsideRecord.filePath, OutsidePath}
    /\ clock = 0
    /\ reply = NoReply
    /\ errorLog = {}
    /\ created = 0

ReadUris ==
    {<<"img://gallery">>, <<"img://config">>, <<"file://x">>, <<UriPrefix>> \o GhostId}
        \cup {imageMetadata[i].uri : i \in 1..Len(imageMetadata)}
NextLoad ==
    \/ Run
    \/ Exit
    \/ ConfigureGeminiToken("K2", TRUE)
    \/ \E uri \in ReadUris : ReadResource(uri)

SpecLoad == InitLoad /\ [][NextLoad]_vars

(***************************************************************************)
(* Properties of the loaded index (specification SpecLoad)                 *)
(***************************************************************************)
\* The allowed directories of the process's PathValidator (of the one it
\* makes when it has none yet)
Roots ==
    IF pathValidator = Null THEN NewPathValidator(config).allowedDirectories
    ELSE pathValidator.allowedDirectories
WithinRoots(p) == IsAllowed(Roots, Cwd, p)

\* C20 (as stated): the filePath of every record in the index is within the
\* allowed directories, and an image read through img://image/{id} is read
\* from a path within them.
C20_StoredPathsWithinRoots ==
    /\ \A i \in 1..Len(imageMetadata) : WithinRoots(imageMetadata[i].filePath)
    /\ (reply.op = "read_resource" /\ reply.ok /\ "read" \in DOMAIN reply.extra) =>
          WithinRoots(reply.extra.read)

(***************************************************************************)
(* Specification SpecGen: generate_image called with a model and a format  *)
(* argument, in a process that is configured first.  The upstream service  *)
(* answers a model it does not know with an error and any other call with  *)
(* an image; the writes go through.                                        *)
(***************************************************************************)
Formats == {"png", "jpeg", "webp"}
UnknownModel == <<"invalid-model-xyz-123">>
ModelNotFound == PlainError(<<"404 model not found">>)
GenerateFormatCall ==
    \E model \in {NoModel, UnknownModel} :
    \E format \in (IF model = NoModel THEN {None, "bmp"} \cup Formats ELSE {None}) :
    \E tick \in (IF model = NoModel THEN Ticks ELSE {0}) :
        GenerateImage("red circle", model, format,
                      IF model = UnknownModel
                      THEN UpstreamOuts(DefaultMaxRetries + 1, ModelNotFound, ModelNotFound,
                                        ImageResponse)
                      ELSE UpstreamOuts(0, ModelNotFound, ModelNotFound, ImageResponse),
                      tick, AnyRand, TRUE, TRUE)
\* edit_image and continue_editing with the prompts generate_image refuses
EditPromptCall ==
    \E prompt \in Prompts \ {"red circle"} :
    \E viaLast \in BOOLEAN :
        IF viaLast
        THEN ContinueEditing(prompt, Undefined,
                             UpstreamOuts(0, ModelNotFound, ModelNotFound, ImageResponse),
                             1, AnyRand, TRUE, TRUE)
        ELSE EditImage(UserImage, prompt, Undefined,
                       UpstreamOuts(0, ModelNotFound, ModelNotFound, ImageResponse),
                       1, AnyRand, TRUE, TRUE)
NextGen ==
    \/ Run
    \/ \E apiKey \in {"K2"} : ConfigureGeminiToken(apiKey, TRUE)
    \/ GenerateFormatCall
    \/ EditPromptCall
    \/ ListCall

SpecGen == InitTools /\ [][NextGen]_vars

\* C21 (as stated): a generate_image call in a configured session whose model or format is not one of
\* the enumerated values is rejected with InvalidParams before any upstream
\* call and any write, so that every record's format is png, jpeg or webp.
C21_FormatInEnumeration ==
    /\ \A i \in 1..Len(imageMetadata) : imageMetadata[i].format \in Formats
    /\ (/\ reply.op = "generate_image" /\ ensureConfigured
        /\ \/ reply.arg.format \notin Formats \cup {None}
           \/ reply.arg.model = UnknownModel) =>
          (~reply.ok /\ reply.code = InvalidParams /\ reply.upstreamCalls = 0)

\* The prompts that generate_image refuses: empty, blank, too long
BadPrompt(prompt) ==
    prompt = "" \/ prompt = "   " \/ PromptLength(prompt) > MaxPromptLength

\* C27 (as stated): edit_image and continue_editing called in a configured
\* process with a prompt that is empty, only whitespace or longer than
\* MaxPromptLength answer with an InvalidParams error, make no upstream call,
\* send no file and change nothing.
C27_EditPromptRejected ==
    [][ (/\ reply'.op \in {"edit_image", "continue_editing"}
         /\ ensureConfigured /\ BadPrompt(reply'.arg.prompt)) =>
          /\ ~reply'.ok /\ reply'.mcp /\ reply'.code = InvalidParams
          /\ reply'.upstreamCalls = 0
          /\ reply'.extra = NoExtra
          /\ UNCHANGED <<imageMetadata, files, metaFiles, lastImagePath>> ]_vars

(***************************************************************************)
(* More properties of the process (specification Spec)                     *)
(***************************************************************************)

\* C22: a generate_image call in a configured session with an empty, a blank
\* or a too long prompt fails with InvalidParams without an upstream call and
\* leaves the index, the image files, .metadata.json and lastImagePath as
\* they were.
C22_BadPromptRejected ==
    [][ (Handles("generate_image") /\ ensureConfigured /\ BadPrompt(reply'.arg.prompt)) =>
          /\ ~reply'.ok /\ reply'.mcp /\ reply'.code = InvalidParams
          /\ reply'.upstreamCalls = 0
          /\ UNCHANGED <<imageMetadata, files, metaFiles, lastImagePath>> ]_vars

\* A blank prompt has been refused in a configured process that holds a record
C22_Witness ==
    /\ reply.op = "generate_image" /\ ensureConfigured
    /\ reply.arg.prompt = "   "
    /\ ~reply.ok /\ reply.code = InvalidParams
    /\ Len(imageMetadata) > 0 /\ lastImagePath # NoPath

\* The answer of a generate_image call that made no image
NoImageNote == <<"Note: No image was generated">>

\* C23: a generate_image call whose upstream call succeeds with a response
\* that holds text and no image answers with success (no error), with the
\* note that no image was generated and without the "Image saved to" line of
\* a call that made an image; it adds no record, writes no image file, does
\* not write .metadata.json and leaves lastImagePath as it was.
C23_TextOnlyResponse ==
    [][ (/\ Handles("generate_image") /\ SeesResponse /\ ~reply'.extra.payload) =>
          /\ reply'.ok /\ ~reply'.mcp
          /\ Includes(reply'.message, NoImageNote)
          /\ ~Includes(reply'.message, <<"Image saved to: ">>)
          /\ UNCHANGED <<imageMetadata, files, metaFiles, lastImagePath>> ]_vars

\* A text-only response has been answered in a process that made an image
\* before; a call that makes an image answers differently
C23_Witness ==
    /\ reply.op = "generate_image" /\ SawResponse /\ ~reply.extra.payload
    /\ reply.ok /\ Includes(reply.message, NoImageNote)
    /\ Len(imageMetadata) > 0 /\ lastImagePath # NoPath

(***************************************************************************)
(* More properties of the process with all its tools (SpecTools)           *)
(***************************************************************************)
\* C24 (as stated): a generate_image, edit_image or continue_editing call that
\* stores a record stores it under an id that no record of the index has, and
\* in every step of these calls each record of the index stays as it is.
C24_FreshIds ==
    [][ reply'.op \in ImageTools =>
          /\ (reply'.ok /\ SeesResponse /\ reply'.extra.payload
                /\ MapHas(imageMetadata', reply'.extra.id)) =>
                ~MapHas(imageMetadata, reply'.extra.id)
          /\ \A i \in 1..Len(imageMetadata) :
                /\ MapHas(imageMetadata', imageMetadata[i].id)
                /\ MapGet(imageMetadata', imageMetadata[i].id) = imageMetadata[i] ]_vars

\* C28 (as stated): lastImagePath changes only in a generate_image,
\* edit_image or continue_editing call that answers with success; a call that
\* answers with an error leaves it as it was.
C28_PointerOnlyOnSuccess ==
    [][ (pc = "running" /\ pc' = "running") =>
          /\ lastImagePath' # lastImagePath => (reply'.op \in ImageTools /\ reply'.ok)
          /\ (reply'.op \in ImageTools /\ ~reply'.ok) => lastImagePath' = lastImagePath ]_vars

\* C30 (as stated): a generate_image call that answers with success after an
\* upstream response that carries image bytes, of either model family, has
\* written the image file, set lastImagePath to it and stored one record of
\* type "generated" for it.
C30_BothFamiliesStore ==
    [][ (/\ Handles("generate_image") /\ reply'.ok
         /\ SeesResponse /\ reply'.extra.payload) =>
          /\ lastImagePath' \in files'
          /\ MapHas(imageMetadata', reply'.extra.id)
          /\ MapGet(imageMetadata', reply'.extra.id).type = "generated"
          /\ MapGet(imageMetadata', reply'.extra.id).filePath = lastImagePath'
          /\ MapGet(imageMetadata', reply'.extra.id).model =
               (IF reply'.arg.model = NoModel THEN DefaultModel ELSE reply'.arg.model) ]_vars

(***************************************************************************)
(* Specification SpecRoots: the process started on a configuration file    *)
(* that may name an output directory of its own, then configured again     *)
(* through configure_gemini_token.                                         *)
(***************************************************************************)
CustomDir == <<SEP, "o">>
RootDirs == {ImagesDirOf(Null), CustomDir}

InitRoots ==
    /\ Constructed /\ PvIdle /\ RtIdle
    /\ envKey = None
    /\ configFile \in {[geminiApiKey |-> "K2", outputDirectory |-> CustomDir],
                       [geminiApiKey |-> "K2", outputDirectory |-> NoPath]}
    /\ metaFiles = [d \in RootDirs |-> NoFile]
    /\ files = {UserImage}
    /\ clock = 0
    /\ reply = NoReply
    /\ errorLog = {}
    /\ created = 0
    /\ persisted = [d \in RootDirs |-> NoFile]

\* edit_image of an image the process wrote, or of the user's
EditOwnCall ==
    \E imagePath \in files :
        EditImage(imagePath, "make it blue", Undefined,
                  UpstreamOuts(0, DiskFull, DiskFull, ImageResponse), 1, AnyRand, TRUE, TRUE)

NextRoots ==
    \/ Run
    \/ Exit
    \/ \E apiKey \in {"", "K3"} : \E writeOk \in BOOLEAN : ConfigureGeminiToken(apiKey, writeOk)
    \/ \E tick \in Ticks :
          GenerateImage("red circle", NoModel, None,
                        UpstreamOuts(0, DiskFull, DiskFull, ImageResponse), tick, AnyRand,
                        TRUE, TRUE)
    \/ EditOwnCall

SpecRoots == InitRoots /\ [][NextRoots]_vars

\* C26 (as stated): once the process has a PathValidator, its allowed
\* directories are the same in every later state of the process; no call,
\* configure_gemini_token after a configuration with an outputDirectory was
\* loaded included, adds or removes one.
C26_RootsFixed ==
    [][ (pc = "running" /\ pc' = "running" /\ pathValidator # Null) =>
          /\ pathValidator' # Null
          /\ pathValidator'.allowedDirectories = pathValidator.allowedDirectories ]_vars

(***************************************************************************)
(* Specification SpecConc: tool calls that overlap.  A handler runs until  *)
(* its next await and another call's handler may run before it resumes;    *)
(* here each call is cut at the awaits of fs.access, of the upstream call, *)
(* of fs.unlink, of the image's fs.writeFile and of saveMetadata's         *)
(* fs.writeFile.  Two writes of .metadata.json that are both under way     *)
(* finish in either order.                                                 *)
(***************************************************************************)
MaxCalls == 3

Task(op, st) ==
    [op |-> op, st |-> st, checked |-> NoPath, source |-> NoPath, path |-> NoPath,
     id |-> <<>>, t |-> 0, parent |-> Undefined, snap |-> <<>>, order |-> 0, land |-> 0,
     ok |-> FALSE]
Max(S) == IF S = {} THEN 0 ELSE CHOOSE n \in S : \A m \in S : m <= n
TaskIds == 1..Len(tasks)
\* How many snapshots saveMetadata has taken, how many writes of it have finished
Snapshots == Max({tasks[i].order : i \in TaskIds})
Landings == Max({tasks[i].land : i \in TaskIds})

InitConc ==
    /\ Constructed /\ PvIdle /\ RtIdle
    /\ envKey = None
    /\ configFile = [geminiApiKey |-> "K2", outputDirectory |-> NoPath]
    /\ metaFiles = [d \in MetaDirs |-> NoFile]
    /\ files = {}
    /\ clock = 0
    /\ reply = NoReply
    /\ errorLog = {}
    /\ created = 0
    /\ persisted = [d \in MetaDirs |-> NoFile]

\* A step of a call that does not answer yet
Pending ==
    /\ reply' = NoReply
    /\ errorLog' = {}
    /\ UNCHANGED <<pc, config, genAI, configSource, pathValidator, envKey, configFile,
                   pvVars, rtVars>>
Begins ==
    /\ pc = "running" /\ ensureConfigured
    /\ Len(tasks) < MaxCalls
    /\ Pending

\* generate_image up to the await of the upstream call
BeginGenerate ==
    /\ Begins
    /\ tasks' = Append(tasks, Task("generate_image", "upstream"))
    /\ UNCHANGED <<lastImagePath, imageMetadata, files, metaFiles, clock, created, persisted>>

\* continue_editing up to the await of fs.access(this.lastImagePath)
BeginContinue ==
    /\ Begins
    /\ tasks' = Append(tasks,
                  IF lastImagePath = NoPath THEN Task("continue_editing", "done")
                  ELSE [Task("continue_editing", "access") EXCEPT !.checked = lastImagePath])
    /\ UNCHANGED <<lastImagePath, imageMetadata, files, metaFiles, clock, created, persisted>>

\* delete_image up to the await of fs.unlink
BeginDelete ==
    /\ Begins
    /\ \E id \in MapIds(imageMetadata) :
          tasks' = Append(tasks, [Task("delete_image", "unlinking") EXCEPT
                                    !.id = id, !.path = MapGet(imageMetadata, id).filePath])
    /\ UNCHANGED <<lastImagePath, imageMetadata, files, metaFiles, clock, created, persisted>>

\* continue_editing after fs.access: editImage is called with this.lastImagePath
\* as it is now, and runs up to the await of its upstream call
Delegate(i) ==
    /\ tasks[i].st = "access"
    /\ Pending
    /\ LET validated == validateAndSanitize(pathValidator.allowedDirectories, Cwd, lastImagePath)
       IN  tasks' = [tasks EXCEPT ![i] =
                IF tasks[i].checked \notin files THEN [@ EXCEPT !.st = "done"]
                ELSE IF ~validated.ok \/ validated.path \notin files
                THEN [@ EXCEPT !.st = "done", !.source = lastImagePath]
                ELSE [@ EXCEPT !.st = "upstream", !.source = validated.path]]
    /\ UNCHANGED <<lastImagePath, imageMetadata, files, metaFiles, clock, created, persisted>>

\* The upstream call answers with an image: the id and the file name are made
\* and the call waits for fs.writeFile of the image
Respond(i) ==
    /\ tasks[i].st = "upstream"
    /\ created < MaxImages
    /\ Pending
    /\ LET t == clock + 1
           imageId == NewId(t, AnyRand)
           kind == IF tasks[i].op = "generate_image" THEN "generated-" ELSE "edited-"
       IN  /\ clock' = t
           /\ created' = created + 1
           /\ tasks' = [tasks EXCEPT ![i] =
                [@ EXCEPT !.st = "writing", !.t = t, !.id = imageId,
                          !.path = PathJoin(ImagesDirOf(config),
                                            <<kind>> \o imageId \o <<DOT, DefaultFormat>>),
                          !.parent = IF tasks[i].op = "generate_image" THEN Undefined
                                     ELSE FindByPath(imageMetadata, tasks[i].source)]]
    /\ UNCHANGED <<lastImagePath, imageMetadata, files, metaFiles, persisted>>

\* What saveMetadata hands to fs.writeFile: the index as it is at the call
\* (variant: the index as it is when the write finishes)
WrittenIndex_AtLanding(snap, index) == index
WrittenIndex(snap, index) == snap

\* The image is written: lastImagePath, the record, and saveMetadata up to the
\* await of its fs.writeFile
Written(i) ==
    /\ tasks[i].st = "writing"
    /\ Pending
    /\ LET c == tasks[i]
           metadata == NewMetadata(c.id, c.path,
                         IF c.op = "generate_image" THEN "red circle" ELSE "make it blue",
                         IF c.op = "generate_image" THEN "generated" ELSE "edited",
                         c.t, DefaultModel, DefaultFormat, PayloadSize(Some(Bytes)),
                         Undefined,
                         IF c.parent = Undefined THEN Undefined ELSE Some(c.parent.v.id))
           after == MapSet(imageMetadata, metadata)
       IN  /\ files' = files \cup {c.path}
           /\ lastImagePath' = c.path
           /\ imageMetadata' = after
           /\ tasks' = [tasks EXCEPT ![i] =
                [@ EXCEPT !.st = "saving", !.snap = after, !.order = Snapshots + 1]]
    /\ UNCHANGED <<metaFiles, clock, created, persisted>>

\* The file is unlinked: the record is deleted, and saveMetadata up to the
\* await of its fs.writeFile
Unlinked(i) ==
    /\ tasks[i].st = "unlinking"
    /\ Pending
    /\ LET after == MapDelete(imageMetadata, tasks[i].id)
       IN  /\ files' = files \ {tasks[i].path}
           /\ imageMetadata' = after
           /\ tasks' = [tasks EXCEPT ![i] =
                [@ EXCEPT !.st = "saving", !.snap = after, !.order = Snapshots + 1]]
    /\ UNCHANGED <<lastImagePath, metaFiles, clock, created, persisted>>

\* saveMetadata's fs.writeFile finishes and the call answers
Landed(i) ==
    /\ tasks[i].st = "saving"
    /\ LET written == WrittenIndex(tasks[i].snap, imageMetadata)
       IN  /\ metaFiles' = SavedMeta(config, written)
           /\ persisted' = SavedSnapshot(config, written)
    /\ tasks' = [tasks EXCEPT ![i] = [@ EXCEPT !.st = "done", !.ok = TRUE,
                                                !.land = Landings + 1]]
    /\ AnswerWith(tasks[i].op, tasks[i].id,
                  Result(TRUE, FALSE, None, <<"saved">>, 1, {}), Persist(TRUE))
    /\ UNCHANGED <<pc, config, genAI, configSource, pathValidator, envKey, configFile,
                   lastImagePath, imageMetadata, files, clock, created, pvVars, rtVars>>

NextConc ==
    \/ Run /\ UNCHANGED tasks
    \/ BeginGenerate
    \/ BeginContinue
    \/ BeginDelete
    \/ \E i \in TaskIds : Delegate(i)
    \/ \E i \in TaskIds : Respond(i)
    \/ \E i \in TaskIds : Written(i)
    \/ \E i \in TaskIds : Unlinked(i)
    \/ \E i \in TaskIds : Landed(i)

SpecConc == InitConc /\ [][NextConc]_vars

ConcDir == ImagesDirOf(config)
InFlight == {i \in TaskIds : tasks[i].st # "done"}
LastLanded == CHOOSE i \in TaskIds : tasks[i].land = Landings

\* C25: .metadata.json holds what the call whose write finished last handed
\* to fs.writeFile, which is the index as it was when that call reached
\* saveMetadata; it is the index of the process when no write is under way
\* and that call was also the last to reach saveMetadata.  Writes under way
\* together are not ordered, so two calls can both answer with success and
\* leave a file that lacks a change the index holds (the witness).
C25_FileIsLastLanded ==
    Landings > 0 =>
      /\ persisted[ConcDir] = File(tasks[LastLanded].snap)
      /\ (/\ \A i \in TaskIds : tasks[i].st # "saving"
          /\ tasks[LastLanded].order = Snapshots) =>
            persisted[ConcDir].content = imageMetadata

\* Two calls overlapped, both answered with success, none is in flight, and
\* the index holds a record that .metadata.json lacks
C25_Witness ==
    /\ Len(tasks) = 2 /\ InFlight = {}
    /\ tasks[1].ok /\ tasks[2].ok
    /\ persisted[ConcDir].exists
    /\ \E id \in MapIds(imageMetadata) : ~MapHas(persisted[ConcDir].content, id)

\* C29 (as stated): the path continue_editing hands to editImage is the path
\* whose file it looked for with fs.access.
C29_CheckedIsDelegated ==
    \A i \in TaskIds :
        (tasks[i].op = "continue_editing" /\ tasks[i].source # NoPath) =>
            tasks[i].source = tasks[i].checked

(***************************************************************************)
(* Specification SpecPV: one validateAndSanitize call of a PathValidator   *)
(* built as loadConfig builds it, for every short input string.            *)
(***************************************************************************)
MaxPathLen == 5
InputAtoms == {SEP, DOT, "a", "b"}
InputPaths == UNION {[1..n -> InputAtoms] : n \in 0..MaxPathLen}

\* The process environments tried: working directory, home directory and
\* the configured output directory (NoPath: not configured).
PvEnvs ==
    { [cwd |-> <<SEP, "a">>, home |-> <<SEP, "b">>, outputDirectory |-> NoPath],
      [cwd |-> <<SEP>>, home |-> <<SEP, "b">>, outputDirectory |-> NoPath],
      [cwd |-> <<SEP, "usr", SEP, "a">>, home |-> <<SEP, "b">>,
       outputDirectory |-> <<SEP, "a", SEP, "b">>] }

PvAllowed(env) ==
    AllowedDirectories(getImagesDirectory(env.outputDirectory, env.cwd, env.home),
                       env.cwd, env.home)

InitPV ==
    /\ pvEnv \in PvEnvs
    /\ pvInput \in InputPaths
    /\ pvResult = Null
    /\ RtIdle
    /\ MainIdle

PvValidate ==
    /\ pvResult = Null
    /\ pvResult' = validateAndSanitize(PvAllowed(pvEnv), pvEnv.cwd, pvInput)
    /\ UNCHANGED <<pvEnv, pvInput, rtVars, mainVars, tasks>>

NextPV == PvValidate

SpecPV == InitPV /\ [][NextPV]_vars

\* The input holds a parent-directory segment before any normalization.
HasDotDotSegment(p) == \E i \in 1..Len(Split(p)) : Split(p)[i] = DotDot

\* Structural containment: the segments of the root begin the segments of p.
Within(rootSegs, segs) ==
    Len(rootSegs) <= Len(segs) /\ SubSeq(segs, 1, Len(rootSegs)) = rootSegs
Contained(env, p) ==
    \E i \in 1..Len(PvAllowed(env)) :
        Within(ResolveSegs(env.cwd, PvAllowed(env)[i]), ResolveSegs(env.cwd, p))

PvDone == pvResult # Null
PvDenied == PvDone /\ ~pvResult.ok

\* C1: every input holding a ".." segment before normalization is rejected,
\* whether or not the resolved path still holds "..".
C1_TraversalRejected ==
    (PvDone /\ HasDotDotSegment(pvInput)) => ~pvResult.ok

\* C2: an input without a ".." segment is accepted exactly when its canonical
\* absolute form is an allowed root or lies below one.
C2_Containment ==
    (PvDone /\ ~HasDotDotSegment(pvInput)) => (pvResult.ok <=> Contained(pvEnv, pvInput))

\* C3: the message of a rejection names no allowed root and no part of the
\* rejected input.
C3_GenericMessage ==
    PvDenied =>
        /\ \A i \in 1..Len(PvAllowed(pvEnv)) :
               ~Includes(pvResult.message, PvAllowed(pvEnv)[i])
        /\ Len(pvInput) > 0 => ~Includes(pvResult.message, pvInput)

(***************************************************************************)
(* Specification SpecRT: one retryWithBackoff call, for every short        *)
(* sequence of outcomes of the wrapped operation.                          *)
(***************************************************************************)
RetryBound == 3
RtDelays == {1, DefaultInitialDelay}

Value == [ok |-> TRUE, value |-> "value"]
Thrown(mcp, code, text) == [ok |-> FALSE, mcp |-> mcp, code |-> code, message |-> <<text>>]
RtOutcomes ==
    { Value,
      Thrown(FALSE, None, "fetch failed"),
      Thrown(FALSE, None, "429 Too Many Requests"),
      Thrown(TRUE, InvalidParams, "invalid parameters"),
      Thrown(TRUE, InvalidRequest, "invalid request"),
      Thrown(TRUE, InternalError, "internal error") }

RtInputs ==
    UNION { [outs : [1..(m + 1) -> RtOutcomes], maxRetries : {m}, initialDelay : RtDelays]
            : m \in 0..RetryBound }

InitRT ==
    /\ rtArgs \in RtInputs
    /\ rtRun = Null
    /\ PvIdle
    /\ MainIdle

RtCall ==
    /\ rtRun = Null
    /\ rtRun' = retryWithBackoff(rtArgs.outs, rtArgs.maxRetries, rtArgs.initialDelay)
    /\ UNCHANGED <<rtArgs, pvVars, mainVars, tasks>>

NextRT == RtCall

SpecRT == InitRT /\ [][NextRT]_vars

RtDone == rtRun # Null
\* The malformed-input class of errors: the caller passed invalid parameters
\* or the request came in an invalid state.
IsMalformedInput(out) ==
    out.mcp /\ (out.code = InvalidParams \/ out.code = InvalidRequest)
\* Every call of the operation fails with a failure that is retried.
RtAlwaysRetryable ==
    \A k \in 1..Len(rtArgs.outs) : ~rtArgs.outs[k].ok /\ ~IsMalformedInput(rtArgs.outs[k])
\* The first call fails with an invalid-parameters or invalid-request-state error.
RtFirstNonRetryable ==
    ~rtArgs.outs[1].ok /\ IsMalformedInput(rtArgs.outs[1])
DoublingDelays(initialDelay, n) == [k \in 1..n |-> initialDelay * (2 ^ (k - 1))]

\* C6 as stated: an operation that always fails retryably is invoked exactly
\* maxAttempts (the second argument) times, with doubling waits between the
\* attempts, and the last failure is thrown.
C6_AttemptsAsStated ==
    (RtDone /\ RtAlwaysRetryable /\ rtArgs.maxRetries >= 1) =>
        /\ rtRun.calls = rtArgs.maxRetries
        /\ rtRun.delays = DoublingDelays(rtArgs.initialDelay, rtArgs.maxRetries - 1)
        /\ rtRun.result = rtArgs.outs[rtArgs.maxRetries]

\* C6 amended: the second argument counts retries, so the operation is invoked
\* exactly maxRetries + 1 times, the wait after failed attempt k (from 0) is
\* initialDelay * 2^k for k < maxRetries, and the last failure is thrown.
C6_RetryBound ==
    (RtDone /\ RtAlwaysRetryable) =>
        /\ rtRun.calls = rtArgs.maxRetries + 1
        /\ rtRun.delays = DoublingDelays(rtArgs.initialDelay, rtArgs.maxRetries)
        /\ rtRun.result = rtArgs.outs[rtArgs.maxRetries + 1]

C6_Witness ==
    /\ RtDone /\ RtAlwaysRetryable
    /\ rtArgs.maxRetries = DefaultMaxRetries
    /\ rtArgs.initialDelay = DefaultInitialDelay
    /\ rtRun.delays = <<1000, 2000, 4000>>
    /\ rtArgs.outs[1] # rtArgs.outs[rtArgs.maxRetries + 1]

\* C7: when the first failure is an invalid-parameters or invalid-request-state
\* error the operation is invoked once, nothing is waited for, and that same
\* error is thrown.
C7_NonRetryableOnce ==
    (RtDone /\ RtFirstNonRetryable) =>
        /\ rtRun.calls = 1
        /\ rtRun.delays = <<>>
        /\ rtRun.result = rtArgs.outs[1]

C7_Witness ==
    /\ RtDone /\ RtFirstNonRetryable
    /\ rtArgs.maxRetries = DefaultMaxRetries
    /\ rtArgs.outs[1].code = InvalidRequest
    /\ rtArgs.outs[2].ok

====
